---- MODULE Spec2Model ----
(***************************************************************************)
(* Daily Log (src/app.py): a Streamlit form that appends one entry to a    *)
(* session table and pushes the whole table, as CSV, to one file of a      *)
(* GitHub repository through the contents API.                             *)
(*                                                                         *)
(* Text is modelled as a sequence of one-character strings, so that        *)
(* split(':'), int() and float() are computed and not assumed.  A cell of  *)
(* a CSV file is text; a cell of a DataFrame is a tagged value.            *)
(***************************************************************************)
EXTENDS Integers, Sequences, FiniteSets, TLC

VARIABLES
    remote,   \* the store: the file at FILE_PATH and its revision (sha)
    pc,       \* per session: where its script is
    df,       \* per session: st.session_state.df
    sha,      \* per session: the local sha of upload_to_github
    run,      \* per session: what the current form submission has done
    subs,     \* per session: the form inputs submitted so far
    loaded,   \* per session: what load_data met and returned
    hval,     \* the argument of hhmm_to_decimal (normaliser specification)
    hres      \* its outcome

\* ------------------------------------------------------------------ bounds
\* Longest text given to hhmm_to_decimal by the normaliser specification.
MaxLen == 4

\* Form submissions made in one behaviour, all sessions together.
MaxSubmits == 2

\* ------------------------------------------------------------------ values
\* A DataFrame cell: t is "str", "int", "float", "ts" (Timestamp) or "nan".
\* A number is n / d with d a power of ten and no trailing zero in n / d;
\* a Timestamp holds its day number in n; a str holds its text in s.
Val(t, n, d, s) == [t |-> t, n |-> n, d |-> d, s |-> s]
NaN == Val("nan", 0, 1, <<>>)
Str(s) == Val("str", 0, 1, s)
IntVal(n) == Val("int", n, 1, <<>>)
Ts(day) == Val("ts", day, 1, <<>>)

RECURSIVE Float(_, _)
Float(n, d) ==
    IF d > 1 /\ n % 10 = 0 THEN Float(n \div 10, d \div 10)
    ELSE Val("float", n, d, <<>>)

Digits == <<"0", "1", "2", "3", "4", "5", "6", "7", "8", "9">>

IsDigit(c) == \E i \in 1..10 : Digits[i] = c

DigitValue(c) == (CHOOSE i \in 1..10 : Digits[i] = c) - 1

RECURSIVE Pow10(_)
Pow10(k) == IF k = 0 THEN 1 ELSE 10 * Pow10(k - 1)

\* The value of a run of decimal digits.
RECURSIVE DigitsValue(_)
DigitsValue(s) ==
    IF s = <<>> THEN 0
    ELSE 10 * DigitsValue(SubSeq(s, 1, Len(s) - 1)) + DigitValue(s[Len(s)])

AllDigits(s) == \A i \in 1..Len(s) : IsDigit(s[i])

\* str.split(':'): the pieces between the colons, empty pieces kept.
RECURSIVE Split(_)
Split(s) ==
    IF \A i \in 1..Len(s) : s[i] # ":" THEN <<s>>
    ELSE LET i == CHOOSE k \in 1..Len(s) :
                      s[k] = ":" /\ \A j \in 1..(k - 1) : s[j] # ":"
         IN <<SubSeq(s, 1, i - 1)>> \o Split(SubSeq(s, i + 1, Len(s)))

\* int(text) succeeds on a non-empty run of digits (the texts modelled hold
\* no sign, blank or underscore).
IntParses(s) == s # <<>> /\ AllDigits(s)

\* float(text) succeeds on digits with at most one point and at least one
\* digit (the texts modelled hold no sign, exponent, "nan" or "inf").
FloatParses(s) ==
    /\ \A i \in 1..Len(s) : IsDigit(s[i]) \/ s[i] = "."
    /\ Cardinality({i \in 1..Len(s) : s[i] = "."}) <= 1
    /\ \E i \in 1..Len(s) : IsDigit(s[i])

FloatOf(s) ==
    LET dots == {i \in 1..Len(s) : s[i] = "."}
        p == IF dots = {} THEN Len(s) + 1 ELSE CHOOSE i \in dots : TRUE
        whole == SubSeq(s, 1, p - 1)
        frac == SubSeq(s, p + 1, Len(s))
    IN Float(DigitsValue(whole \o frac), Pow10(Len(frac)))

\* round(h + m / 60, 2), as a number of hundredths: 100 h + round(5 m / 3).
\* 5 m / 3 is never half way between two integers.
RoundHundredths(h, m) == 100 * h + ((5 * m + 1) \div 3)

\* The body of the try block of hhmm_to_decimal: the value returned, or
\* "raise" when int(), the unpacking or float() raises.
hhmm_try(val) ==
    IF val.t = "str" /\ \E i \in 1..Len(val.s) : val.s[i] = ":"
    THEN LET parts == Split(val.s)
         IN IF Len(parts) = 2 /\ IntParses(parts[1]) /\ IntParses(parts[2])
            THEN [raised |-> FALSE,
                  v |-> Float(RoundHundredths(DigitsValue(parts[1]),
                                              DigitsValue(parts[2])), 100)]
            ELSE [raised |-> TRUE, v |-> NaN]
    ELSE IF val.t = "str"
         THEN IF FloatParses(val.s)
              THEN [raised |-> FALSE, v |-> FloatOf(val.s)]
              ELSE [raised |-> TRUE, v |-> NaN]
    ELSE IF val.t = "int" THEN [raised |-> FALSE, v |-> Float(val.n, 1)]
    ELSE IF val.t = "ts" THEN [raised |-> TRUE, v |-> NaN]
    ELSE [raised |-> FALSE, v |-> val]

\* Variant without the except clause: what the try block raises gets out.
hhmm_no_except(val) == hhmm_try(val)

\* hhmm_to_decimal: the outcome of the call.  The bare except catches
\* whatever the try block raises and returns the argument itself.
hhmm_to_decimal(val) ==
    LET r == hhmm_try(val)
    IN IF r.raised THEN [raised |-> FALSE, v |-> val] ELSE r

\* time_to_decimal(t) of the form: round(t.hour + t.minute / 60, 2).
time_to_decimal(t) == Float(RoundHundredths(t[1], t[2]), 100)

\* ------------------------------------------------------------------ tables
COLUMNS == <<"Date", "Weekday", "Ordinary Day", "Screen Time", "Study Time",
             "Study Quality (1-10)", "Meditation", "Morning Study",
             "Morning Phone", "Lunch Phone", "Dinner Phone", "Running", "P",
             "Morning Wake Up Hour", "Notes", "Plan/Strategies">>

Range(f) == {f[i] : i \in DOMAIN f}

\* The columns of q that p lacks, in q's order.
RECURSIVE NewCols(_, _)
NewCols(p, q) ==
    IF q = <<>> THEN <<>>
    ELSE IF Head(q) \in Range(p) THEN NewCols(p, Tail(q))
         ELSE <<Head(q)>> \o NewCols(p \o <<Head(q)>>, Tail(q))

\* A DataFrame: its column labels in order and its rows in index order, a
\* row being a function from the column labels to cells.
DataFrame(cols, rows) == [cols |-> cols, rows |-> rows]

\* pd.DataFrame(columns=COLUMNS)
EmptyFrame == DataFrame(COLUMNS, <<>>)

IsNumber(v) == v.t = "int" \/ v.t = "float"

\* A numeric column that holds a missing value is float64: its ints are
\* floats.  A column that holds text or Timestamps keeps its objects.
Upcast(fr) ==
    LET numeric(c) == \A i \in 1..Len(fr.rows) :
                          IsNumber(fr.rows[i][c]) \/ fr.rows[i][c].t = "nan"
        missing(c) == \E i \in 1..Len(fr.rows) : fr.rows[i][c].t = "nan"
        cell(v, c) == IF v.t = "int" /\ numeric(c) /\ missing(c)
                      THEN Float(v.n, 1) ELSE v
    IN DataFrame(fr.cols,
                 [i \in 1..Len(fr.rows) |->
                     [c \in Range(fr.cols) |-> cell(fr.rows[i][c], c)]])

\* Variant join="inner": only the columns both frames have.
ConcatInner(a, b) ==
    LET keep == SelectSeq(a.cols, LAMBDA c : c \in Range(b.cols))
    IN DataFrame(keep,
                 [i \in 1..(Len(a.rows) + Len(b.rows)) |->
                     [c \in Range(keep) |->
                         IF i <= Len(a.rows) THEN a.rows[i][c]
                         ELSE b.rows[i - Len(a.rows)][c]]])

\* Variant that merges by date: a row of a with the date of a row of b is
\* replaced by it.
ConcatMerge(a, b) ==
    LET cols == a.cols \o NewCols(a.cols, b.cols)
        fill(r, have) == [c \in Range(cols) |->
                             IF c \in Range(have) THEN r[c] ELSE NaN]
        kept == SelectSeq(a.rows, LAMBDA r :
                    \A j \in 1..Len(b.rows) :
                        ~("Date" \in Range(a.cols) /\ "Date" \in Range(b.cols)
                          /\ r["Date"] = b.rows[j]["Date"]))
    IN Upcast(DataFrame(cols,
                 [i \in 1..(Len(kept) + Len(b.rows)) |->
                     IF i <= Len(kept) THEN fill(kept[i], a.cols)
                     ELSE fill(b.rows[i - Len(kept)], b.cols)]))

\* pd.concat([a, b], ignore_index=True): the union of the columns in order
\* of appearance, a's rows then b's, NaN where a frame lacks a column.
Concat(a, b) ==
    LET cols == a.cols \o NewCols(a.cols, b.cols)
        fill(r, have) == [c \in Range(cols) |->
                             IF c \in Range(have) THEN r[c] ELSE NaN]
    IN Upcast(DataFrame(cols,
                 [i \in 1..(Len(a.rows) + Len(b.rows)) |->
                     IF i <= Len(a.rows) THEN fill(a.rows[i], a.cols)
                     ELSE fill(b.rows[i - Len(a.rows)], b.cols)]))

\* ------------------------------------------------------------ CSV text
Yes == <<"Y", "e", "s">>

\* The calendar dates modelled are 2024-01-01 .. 2024-01-09, day 1 .. 9.
DatePrefix == <<"2", "0", "2", "4", "-", "0", "1", "-", "0">>

DateText(day) == DatePrefix \o <<Digits[day + 1]>>

IsDateText(s) ==
    /\ Len(s) = Len(DatePrefix) + 1
    /\ SubSeq(s, 1, Len(DatePrefix)) = DatePrefix
    /\ IsDigit(s[Len(s)]) /\ s[Len(s)] # "0"

\* strftime("%A"); 2024-01-01 is a Monday.
Weekday(day) ==
    LET names == << <<"M", "o", "n", "d", "a", "y">>,
                    <<"T", "u", "e", "s", "d", "a", "y">>,
                    <<"W", "e", "d", "n", "e", "s", "d", "a", "y">>,
                    <<"T", "h", "u", "r", "s", "d", "a", "y">>,
                    <<"F", "r", "i", "d", "a", "y">>,
                    <<"S", "a", "t", "u", "r", "d", "a", "y">>,
                    <<"S", "u", "n", "d", "a", "y">> >>
    IN names[((day - 1) % 7) + 1]

RECURSIVE NatText(_)
NatText(n) ==
    IF n < 10 THEN <<Digits[n + 1]>>
    ELSE NatText(n \div 10) \o <<Digits[(n % 10) + 1]>>

\* The k digits of n, zero padded on the left.
RECURSIVE PadText(_, _)
PadText(n, k) ==
    IF k = 0 THEN <<>>
    ELSE PadText(n \div 10, k - 1) \o <<Digits[(n % 10) + 1]>>

RECURSIVE Log10(_)
Log10(d) == IF d <= 1 THEN 0 ELSE 1 + Log10(d \div 10)

\* The text to_csv writes for a cell: repr of a float, the digits of an
\* int, the calendar date of a Timestamp, nothing for NaN / NaT.
FormatCell(v) ==
    IF v.t = "str" THEN v.s
    ELSE IF v.t = "int" THEN NatText(v.n)
    ELSE IF v.t = "float"
         THEN NatText(v.n \div v.d) \o <<".">> \o
              (IF v.d = 1 THEN <<"0">> ELSE PadText(v.n % v.d, Log10(v.d)))
    ELSE IF v.t = "ts" THEN DateText(v.n)
    ELSE <<>>

\* A file of the store: kind "csv" with a header and rows of text cells,
\* or "absent" (no such file), "empty" (no bytes), "malformed" (rows the
\* CSV parser rejects).
File(kind, cols, rows) == [kind |-> kind, cols |-> cols, rows |-> rows]

\* df.to_csv(index=False): the header, then every row's cells as text.
to_csv(fr) ==
    File("csv", fr.cols,
         [i \in 1..Len(fr.rows) |->
             [c \in Range(fr.cols) |-> FormatCell(fr.rows[i][c])]])

\* pd.read_csv's type inference for one column of text cells: int64 when
\* every cell is an integer, float64 when every cell present is a number,
\* otherwise objects (str, NaN for an empty cell).
ParseColumn(cells) ==
    LET present == {i \in DOMAIN cells : cells[i] # <<>>}
    IN IF cells # <<>> /\ \A i \in DOMAIN cells : IntParses(cells[i])
       THEN [i \in DOMAIN cells |-> IntVal(DigitsValue(cells[i]))]
       ELSE IF \A i \in present : FloatParses(cells[i])
       THEN [i \in DOMAIN cells |->
                IF i \in present THEN FloatOf(cells[i]) ELSE NaN]
       ELSE [i \in DOMAIN cells |->
                IF i \in present THEN Str(cells[i]) ELSE NaN]

\* pd.read_csv(url): the frame, or the exception raised.  net is FALSE
\* when the request itself fails.
read_csv(file, net) ==
    IF ~net THEN [exc |-> "URLError", df |-> EmptyFrame]
    ELSE IF file.kind = "absent" THEN [exc |-> "HTTPError", df |-> EmptyFrame]
    ELSE IF file.kind = "empty"
         THEN [exc |-> "EmptyDataError", df |-> EmptyFrame]
    ELSE IF file.kind = "malformed"
         THEN [exc |-> "ParserError", df |-> EmptyFrame]
    ELSE LET col(c) == ParseColumn([i \in 1..Len(file.rows) |->
                                       file.rows[i][c]])
         IN [exc |-> "none",
             df |-> DataFrame(file.cols,
                       [i \in 1..Len(file.rows) |->
                           [c \in Range(file.cols) |-> col(c)[i]]])]

\* pd.to_datetime on one cell of the Date column: a Timestamp for a
\* calendar date, NaT for a missing cell; other text raises.  (Numeric
\* Date cells are not among the files modelled.)
DateParses(v) == v.t = "nan" \/ (v.t = "str" /\ IsDateText(v.s))

to_datetime(v) ==
    IF v.t = "str" THEN Ts(DigitValue(v.s[Len(v.s)])) ELSE v

\* The try block of load_data: the frame returned, or the exception raised.
load_try(file, net) ==
    LET r == read_csv(file, net)
        fr == r.df
        n == Len(fr.rows)
        wake == "Morning Wake Up Hour"
    IN IF r.exc # "none" THEN r
       ELSE IF "Date" \notin Range(fr.cols)
       THEN [exc |-> "KeyError", df |-> EmptyFrame]
       ELSE IF \E i \in 1..n : ~DateParses(fr.rows[i]["Date"])
       THEN [exc |-> "ValueError", df |-> EmptyFrame]
       ELSE IF \E i \in 1..n : wake \in Range(fr.cols)
                               /\ hhmm_to_decimal(fr.rows[i][wake]).raised
       THEN [exc |-> "Exception", df |-> EmptyFrame]
       ELSE [exc |-> "none",
             df |-> DataFrame(fr.cols,
                       [i \in 1..n |->
                           [c \in Range(fr.cols) |->
                               IF c = "Date"
                               THEN to_datetime(fr.rows[i][c])
                               ELSE IF c = wake
                               THEN hhmm_to_decimal(fr.rows[i][c]).v
                               ELSE fr.rows[i][c]]])]

\* Variant of the except clause that lets KeyError through.
CaughtNoKeyError(exc) == exc # "KeyError"

\* The exceptions "except Exception" catches: every one load_try raises.
Caught(exc) == TRUE

\* load_data: the outcome of the call, a frame or an exception that escapes.
load_data(file, net) ==
    LET r == load_try(file, net)
    IN IF r.exc = "none" THEN r
       ELSE IF Caught(r.exc) THEN [exc |-> "none", df |-> EmptyFrame]
       ELSE r

\* No call of hhmm_to_decimal made yet.
Unset == [raised |-> FALSE, v |-> Val("unset", 0, 1, <<>>)]

\* ------------------------------------------------------------ the store
Sessions == {"s1", "s2"}

\* get_file_sha's "no sha": None.  The store's revisions are 1, 2, ...
None == 0

\* The row a legacy file holds: text cells, the wake-up hour as "8:15".
LegacyRow(date, wake) ==
    [c \in Range(COLUMNS) |->
        IF c = "Date" THEN date
        ELSE IF c = "Weekday" THEN Weekday(1)
        ELSE IF c \in {"Screen Time", "Study Time"} THEN <<"1", ".", "5">>
        ELSE IF c = "Study Quality (1-10)" THEN <<"5">>
        ELSE IF c = "Morning Wake Up Hour" THEN wake
        ELSE IF c \in {"Notes", "Plan/Strategies"} THEN <<>>
        ELSE Yes]

Without(cols, c) == SelectSeq(cols, LAMBDA x : x # c)

Restrict(r, cols) == [c \in Range(cols) |-> r[c]]

\* The files the store may hold when the first session starts.
InitFiles ==
    LET good == LegacyRow(DateText(1), <<"8", ":", "1", "5">>)
        odd == LegacyRow(DateText(2), <<"a", "b", "c">>)
        nowake == Without(COLUMNS, "Morning Wake Up Hour")
        nodate == Without(COLUMNS, "Date")
    IN { File("absent", <<>>, <<>>),
         File("empty", <<>>, <<>>),
         File("malformed", <<>>, <<>>),
         File("csv", COLUMNS, <<>>),
         File("csv", COLUMNS, <<good, odd>>),
         File("csv", COLUMNS, <<LegacyRow(<<"a">>, <<"8">>)>>),
         File("csv", nowake, <<Restrict(good, nowake)>>),
         File("csv", nodate, <<Restrict(good, nodate)>>) }

\* What the user can put in the form: the date and the wake-up time; the
\* other widgets keep their defaults.
FormInputs ==
    { [date |-> 1, wake |-> <<7, 30>>],
      [date |-> 2, wake |-> <<8, 15>>] }

\* The entry dict built from the form.
Entry(inp) ==
    [c \in Range(COLUMNS) |->
        IF c = "Date" THEN Ts(inp.date)
        ELSE IF c = "Weekday" THEN Str(Weekday(inp.date))
        ELSE IF c \in {"Screen Time", "Study Time"}
             THEN time_to_decimal(<<0, 0>>)
        ELSE IF c = "Study Quality (1-10)" THEN IntVal(1)
        ELSE IF c = "Morning Wake Up Hour" THEN time_to_decimal(inp.wake)
        ELSE IF c \in {"Notes", "Plan/Strategies"} THEN Str(<<>>)
        ELSE Str(Yes)]

\* pd.DataFrame([entry])
new_row(inp) == DataFrame(COLUMNS, <<Entry(inp)>>)

\* base64.b64encode(...).decode(): the text, marked as encoded.
b64encode(file) == [encoding |-> "base64", data |-> file]

b64decode(content) == content.data

\* ------------------------------------------------------ upload_to_github
\* Variant that uploads the new row alone.
UploadArgNewRowOnly(s) == new_row(subs[s][Len(subs[s])])

\* st.session_state.df, the argument of upload_to_github.
UploadArg(s) == df[s]

\* The answer of GET .../contents/FILE_PATH: 200 with the file's sha, 404
\* when there is no file; another status when the store refuses.
GetResponse(refused) ==
    IF refused THEN [status |-> 401, sha |-> None]
    ELSE IF remote.file.kind = "absent" THEN [status |-> 404, sha |-> None]
    ELSE [status |-> 200, sha |-> remote.head]

\* get_file_sha, given the response of requests.get.
get_file_sha(resp) == IF resp.status = 200 THEN resp.sha ELSE None

\* Variant without the check of the sha.
NotShaNever(x) == FALSE

\* "if not sha"
NotSha(x) == x = None

\* The JSON body of the PUT.
PutBody(s) ==
    [content |-> b64encode(to_csv(UploadArg(s))), sha |-> sha[s]]

\* The store's answer to the PUT: an update is accepted only with the
\* sha of the file's current revision.
PutStatus(body, refused) ==
    IF refused THEN 500
    ELSE IF remote.file.kind # "absent" /\ body.sha = remote.head THEN 200
    ELSE 409

\* "return response.status_code in [200, 201]"
ReturnValue(status) == IF status \in {200, 201} THEN "True" ELSE "False"

\* Variant that asks for the sha again after a refused PUT.
AfterPutRetry(status) == IF status \in {200, 201} THEN "idle" ELSE "fetch"

\* Where upload_to_github goes after the PUT: it returns.
AfterPut(status) == "idle"

\* What one form submission has done so far: the requests made, what they
\* carried and answered, what upload_to_github returned (ret), the message
\* on the page (msg), whether an exception left the handler (raised), and
\* whether another session held a fetched sha when this one sent its PUT,
\* or the reverse (raced).
NewRun ==
    [nfetch |-> 0, nput |-> 0, respSha |-> None, fetched |-> None,
     fetchSt |-> 0, putSha |-> None, putSt |-> 0, ret |-> "none",
     msg |-> "none", raised |-> FALSE, raced |-> FALSE]

NoFrame == DataFrame(<<>>, <<>>)

NotLoaded == [exc |-> "none", escaped |-> FALSE, file |-> File("absent", <<>>, <<>>),
              df |-> NoFrame]

Init ==
    /\ remote \in {[file |-> f, head |-> IF f.kind = "absent" THEN None ELSE 1] :
                      f \in InitFiles}
    /\ pc = [s \in Sessions |-> "start"]
    /\ df = [s \in Sessions |-> NoFrame]
    /\ sha = [s \in Sessions |-> None]
    /\ run = [s \in Sessions |-> NewRun]
    /\ subs = [s \in Sessions |-> <<>>]
    /\ loaded = [s \in Sessions |-> NotLoaded]
    /\ hval = Str(<<>>)
    /\ hres = Unset

\* The first script run of a session: "df" is not in st.session_state, so
\* st.session_state.df = load_data().
LoadData(s, net) ==
    /\ pc[s] = "start"
    /\ LET r == load_data(remote.file, net)
       IN /\ df' = [df EXCEPT ![s] = r.df]
          /\ loaded' = [loaded EXCEPT ![s] =
                 [exc |-> load_try(remote.file, net).exc,
                  escaped |-> r.exc # "none",
                  file |-> remote.file,
                  df |-> r.df]]
    /\ pc' = [pc EXCEPT ![s] = "idle"]
    /\ UNCHANGED <<remote, sha, run, subs, hval, hres>>

TotalSubmits == Len(subs["s1"]) + Len(subs["s2"])

\* "if submitted": the row is appended to the session table, and
\* upload_to_github starts (it encodes the table, then asks for the sha).
Submit(s, inp) ==
    /\ pc[s] = "idle"
    /\ TotalSubmits < MaxSubmits
    /\ df' = [df EXCEPT ![s] = Concat(df[s], new_row(inp))]
    /\ subs' = [subs EXCEPT ![s] = Append(subs[s], inp)]
    /\ run' = [run EXCEPT ![s] = NewRun]
    /\ sha' = [sha EXCEPT ![s] = None]
    /\ pc' = [pc EXCEPT ![s] = "fetch"]
    /\ UNCHANGED <<remote, loaded, hval, hres>>

\* requests.get raises (no connection): nothing in get_file_sha or in
\* upload_to_github catches it, so it leaves the handler.
GetRaises(s) ==
    /\ pc[s] = "fetch"
    /\ run' = [run EXCEPT ![s].nfetch = @ + 1, ![s].raised = TRUE]
    /\ pc' = [pc EXCEPT ![s] = "idle"]
    /\ UNCHANGED <<remote, df, sha, subs, loaded, hval, hres>>

\* sha = get_file_sha(), then "if not sha: st.error(...); return False".
GetSha(s, refused) ==
    /\ pc[s] = "fetch"
    /\ LET resp == GetResponse(refused)
           got == get_file_sha(resp)
       IN /\ sha' = [sha EXCEPT ![s] = got]
          /\ IF NotSha(got)
             THEN /\ run' = [run EXCEPT ![s].nfetch = @ + 1,
                                        ![s].respSha = resp.sha,
                                        ![s].fetched = got,
                                        ![s].fetchSt = resp.status,
                                        ![s].ret = "False",
                                        ![s].msg = "error: failed to fetch SHA"]
                  /\ pc' = [pc EXCEPT ![s] = "idle"]
             ELSE /\ run' = [run EXCEPT ![s].nfetch = @ + 1,
                                        ![s].respSha = resp.sha,
                                        ![s].fetched = got,
                                        ![s].fetchSt = resp.status]
                  /\ pc' = [pc EXCEPT ![s] = "put"]
    /\ UNCHANGED <<remote, df, subs, loaded, hval, hres>>

\* The run records after session s sends its PUT: r for s, and the mark
\* "raced" on s and on every other session that holds a fetched sha and
\* has not sent its own PUT yet.
Racing(s, r) ==
    [t \in Sessions |->
        IF t = s
        THEN [r EXCEPT !.raced = @ \/ \E u \in Sessions \ {s} : pc[u] = "put"]
        ELSE IF pc[t] = "put" THEN [run[t] EXCEPT !.raced = TRUE]
        ELSE run[t]]

\* requests.put raises (no connection): the request does not reach the
\* store and the exception leaves the handler.  (A PUT the store applied
\* whose answer was lost is not modelled.)
PutRaises(s) ==
    /\ pc[s] = "put"
    /\ run' = Racing(s, [run[s] EXCEPT !.nput = @ + 1,
                                        !.putSha = PutBody(s).sha,
                                        !.raised = TRUE])
    /\ pc' = [pc EXCEPT ![s] = "idle"]
    /\ UNCHANGED <<remote, df, sha, subs, loaded, hval, hres>>

\* response = requests.put(...); return response.status_code in [200, 201];
\* then the handler's "if upload_to_github(...): st.success(...)".
Put(s, refused) ==
    /\ pc[s] = "put"
    /\ LET body == PutBody(s)
           status == PutStatus(body, refused)
           ret == ReturnValue(status)
       IN /\ remote' = IF status = 200
                       THEN [file |-> b64decode(body.content),
                             head |-> remote.head + 1]
                       ELSE remote
          /\ run' = Racing(s, [run[s] EXCEPT
                                  !.nput = @ + 1,
                                  !.putSha = body.sha,
                                  !.putSt = status,
                                  !.ret = ret,
                                  !.msg = IF ret = "True"
                                          THEN "success: saved to GitHub"
                                          ELSE @])
          /\ pc' = [pc EXCEPT ![s] = AfterPut(status)]
    /\ UNCHANGED <<df, sha, subs, loaded, hval, hres>>

Next ==
    \/ \E s \in Sessions, net \in BOOLEAN : LoadData(s, net)
    \/ \E s \in Sessions, inp \in FormInputs : Submit(s, inp)
    \/ \E s \in Sessions : GetRaises(s)
    \/ \E s \in Sessions, refused \in BOOLEAN : GetSha(s, refused)
    \/ \E s \in Sessions : PutRaises(s)
    \/ \E s \in Sessions, refused \in BOOLEAN : Put(s, refused)

vars == <<remote, pc, df, sha, run, subs, loaded, hval, hres>>

Spec == Init /\ [][Next]_vars

\* ------------------------------------------------- normaliser specification
Chars == {"1", "5", "8", ":", ".", "a"}

RECURSIVE TextsOfLen(_)
TextsOfLen(k) ==
    IF k = 0 THEN {<<>>}
    ELSE {Append(s, c) : s \in TextsOfLen(k - 1), c \in Chars}

Texts == UNION {TextsOfLen(k) : k \in 0..MaxLen}

InitNorm ==
    /\ hval \in {Str(s) : s \in Texts}
    /\ hres = Unset
    /\ remote = [file |-> File("absent", <<>>, <<>>), head |-> None]
    /\ pc = [s \in Sessions |-> "start"]
    /\ df = [s \in Sessions |-> NoFrame]
    /\ sha = [s \in Sessions |-> None]
    /\ run = [s \in Sessions |-> NewRun]
    /\ subs = [s \in Sessions |-> <<>>]
    /\ loaded = [s \in Sessions |-> NotLoaded]

\* One call hhmm_to_decimal(hval).
Normalize ==
    /\ hres = Unset
    /\ hres' = hhmm_to_decimal(hval)
    /\ UNCHANGED <<hval, remote, pc, df, sha, run, subs, loaded>>

NextNorm == Normalize

SpecNorm == InitNorm /\ [][NextNorm]_vars

\* ------------------------------------------------------------------ claims
Other(s) == CHOOSE t \in Sessions : t # s

ErrorSha == "error: failed to fetch SHA"

\* C1: in every form submission, upload_to_github asks for the sha at most
\* once and sends at most one PUT; a PUT is sent only after this
\* submission's own sha request answered 200, and it carries exactly the
\* sha that answer held.  Nothing is tried a second time.
C1_FetchThenPut ==
    \A s \in Sessions :
        /\ run[s].nfetch <= 1
        /\ run[s].nput <= 1
        /\ pc[s] = "put" => run[s].nfetch = 1 /\ run[s].nput = 0
        /\ pc[s] = "fetch" => run[s].nfetch = 0 /\ run[s].nput = 0
        /\ run[s].nput = 1 =>
              /\ run[s].nfetch = 1
              /\ run[s].fetchSt = 200
              /\ run[s].respSha # None
              /\ run[s].putSha = run[s].respSha

\* A submission whose PUT was refused by the store after its own fetch.
C1_Witness ==
    \E s \in Sessions :
        /\ pc[s] = "idle" /\ run[s].nfetch = 1 /\ run[s].nput = 1
        /\ run[s].putSt = 409 /\ run[s].putSha = run[s].respSha

\* C2: when get_file_sha returns None, the upload ends there: the error is
\* on the page, upload_to_github has returned False, no PUT was sent, and
\* the step that got the None leaves the remote file as it was.
C2_NoShaNoPut ==
    /\ [](\A s \in Sessions :
            (run[s].nfetch = 1 /\ ~run[s].raised /\ run[s].fetched = None) =>
                /\ pc[s] = "idle"
                /\ run[s].nput = 0
                /\ run[s].ret = "False"
                /\ run[s].msg = ErrorSha)
    /\ [][\A s \in Sessions :
            (run[s].nfetch = 0 /\ run'[s].nfetch = 1 /\ ~run'[s].raised
             /\ run'[s].fetched = None) => remote' = remote]_vars

\* The file is absent: the sha request answered 404.
C2_Witness ==
    \E s \in Sessions :
        /\ pc[s] = "idle" /\ run[s].fetchSt = 404 /\ run[s].fetched = None
        /\ run[s].msg = ErrorSha /\ run[s].nput = 0

\* C3 (as claimed): when two sessions both hold a fetched sha before
\* either sends its PUT, at most one upload returns True; if one does,
\* the other upload returned False and the remote file is exactly the CSV
\* of the winner's table.
C3_AtMostOneWins ==
    \A s \in Sessions :
        LET t == Other(s)
        IN (/\ pc[s] = "idle" /\ pc[t] = "idle"
            /\ run[s].raced /\ run[t].raced
            /\ run[s].nput = 1 /\ run[t].nput = 1) =>
               /\ ~(run[s].ret = "True" /\ run[t].ret = "True")
               /\ run[s].ret = "True" =>
                     /\ run[t].ret = "False"
                     /\ remote.file = to_csv(df[s])

\* C4 (as claimed): a sha request that fails in any way is reported as None
\* and never as an exception: the submission ends with the "failed to
\* fetch" error on the page.
C4_FetchFailureIsNone ==
    \A s \in Sessions :
        (run[s].nfetch = 1 /\ run[s].fetchSt # 200) =>
            /\ ~run[s].raised
            /\ run[s].fetched = None
            /\ pc[s] = "idle" /\ run[s].msg = ErrorSha

\* C5 (as claimed): a submission whose PUT was not answered 200 / 201 ends
\* with an error shown to the operator (a message, or the exception that
\* left the handler), never with nothing shown.
C5_RejectedWriteShown ==
    \A s \in Sessions :
        (pc[s] = "idle" /\ run[s].nput = 1 /\ run[s].putSt \notin {200, 201}) =>
            \/ run[s].raised
            \/ run[s].msg \notin {"none", "success: saved to GitHub"}

\* Two cells hold the same content (an int that became a float is equal).
SameValue(a, b) ==
    \/ a = b
    \/ IsNumber(a) /\ IsNumber(b) /\ a.n * b.d = b.n * a.d

\* C6: a form submission makes the session table the previous table
\* followed by the one new entry: the earlier rows keep their place and
\* their cells, the entry is last, whatever its date.  No other step of
\* the session (the sha request, the PUT, their failures) changes the
\* table, so the row is never taken back.
C6_AppendOnly ==
    /\ [][\A s \in Sessions :
            pc[s] # "start" =>
                IF subs'[s] # subs[s]
                THEN LET old == df[s]
                         new == df'[s]
                         n == Len(old.rows)
                     IN /\ Len(new.rows) = n + 1
                        /\ \A i \in 1..n : \A c \in Range(old.cols) :
                               SameValue(new.rows[i][c], old.rows[i][c])
                        /\ \A c \in Range(COLUMNS) :
                               SameValue(new.rows[n + 1][c],
                                         Entry(subs'[s][Len(subs'[s])])[c])
                ELSE df'[s] = df[s]]_vars
    /\ [](\A s \in Sessions :
            pc[s] # "start" =>
                Len(df[s].rows) = Len(loaded[s].df.rows) + Len(subs[s]))

\* Two rows of one date, the second appended by a submission whose upload
\* returned False.
C6_Witness ==
    \E s \in Sessions :
        LET n == Len(df[s].rows)
        IN /\ pc[s] = "idle" /\ run[s].ret = "False" /\ n >= 2
           /\ df[s].rows[n]["Date"] = df[s].rows[n - 1]["Date"]
           /\ df[s].rows[n] # df[s].rows[n - 1]

\* C7 (as claimed): once a session has loaded its table, the table's
\* column set is the 16 columns of COLUMNS.
C7_ColumnsAlwaysSchema ==
    \A s \in Sessions : pc[s] # "start" => Range(df[s].cols) = Range(COLUMNS)

\* The header load_data kept: COLUMNS when it fell back to the empty
\* table, else the header of the file it read.
LoadedHeader(s) ==
    IF loaded[s].exc # "none" THEN Range(COLUMNS)
    ELSE Range(loaded[s].file.cols)

\* C7 (amended): the column set is the header load_data kept until the
\* first submission, and the union of that header and COLUMNS afterwards;
\* so it is COLUMNS whenever the load fell back or the file's header was
\* the 16 columns.
C7_ColumnsFollowHeader ==
    \A s \in Sessions :
        pc[s] # "start" =>
            /\ Range(df[s].cols) =
                  IF subs[s] = <<>> THEN LoadedHeader(s)
                  ELSE LoadedHeader(s) \cup Range(COLUMNS)
            /\ LoadedHeader(s) = Range(COLUMNS) =>
                  Range(df[s].cols) = Range(COLUMNS)

\* A file without the wake-up column was loaded, and a row was submitted.
C7_Witness ==
    \E s \in Sessions :
        /\ loaded[s].exc = "none"
        /\ "Morning Wake Up Hour" \notin Range(loaded[s].file.cols)
        /\ subs[s] # <<>>
        /\ Range(df[s].cols) = Range(COLUMNS)

\* C8: load_data lets no exception out, and when the request or the
\* parsing failed its result, the session's first table, has no row and
\* the 16 columns of COLUMNS in order.
C8_LoadNeverRaises ==
    \A s \in Sessions :
        pc[s] # "start" =>
            /\ ~loaded[s].escaped
            /\ loaded[s].exc # "none" =>
                  /\ loaded[s].df = DataFrame(COLUMNS, <<>>)
                  /\ subs[s] = <<>> => df[s] = DataFrame(COLUMNS, <<>>)

\* The file has no Date column: df["Date"] raised KeyError inside the try.
C8_Witness ==
    \E s \in Sessions :
        /\ loaded[s].exc = "KeyError" /\ loaded[s].file.kind = "csv"
        /\ df[s].rows = <<>> /\ df[s].cols = COLUMNS

\* The text is digits, one colon, digits.
HourMinute(s) ==
    \E p \in 2..(Len(s) - 1) :
        /\ s[p] = ":"
        /\ \A i \in 1..Len(s) : i # p => IsDigit(s[i])

ColonAt(s) == CHOOSE p \in 1..Len(s) : s[p] = ":"

\* v is the number of hundredths nearest to h + m / 60.
IsRounded(v, h, m) ==
    /\ v.t = "float"
    /\ 100 % v.d = 0
    /\ LET e == 6 * v.n * (100 \div v.d) - 600 * h - 10 * m
       IN -3 < e /\ e < 3

\* v is the number the plain decimal text s writes.
IsNumberOf(v, s) ==
    LET digits == SelectSeq(s, IsDigit)
        point == {i \in 1..Len(s) : s[i] = "."}
        k == IF point = {} THEN 0
             ELSE Len(s) - (CHOOSE i \in point : TRUE)
    IN v.t = "float" /\ v.n * Pow10(k) = DigitsValue(digits) * v.d

HourOf(s) == DigitsValue(SubSeq(s, 1, ColonAt(s) - 1))

MinuteOf(s) == DigitsValue(SubSeq(s, ColonAt(s) + 1, Len(s)))

\* C9 (as claimed): hhmm_to_decimal(s) never raises, is round(h + m/60, 2)
\* for s = "h:m" with integer h and m, and is s itself for every other s.
C9_MalformedUnchanged ==
    hres # Unset =>
        /\ ~hres.raised
        /\ IF HourMinute(hval.s)
           THEN IsRounded(hres.v, HourOf(hval.s), MinuteOf(hval.s))
           ELSE hres.v = hval

\* C9 (amended): hhmm_to_decimal(s) never raises, is round(h + m/60, 2) for
\* s = "h:m" with integer h and m, is the number s writes when s has no
\* colon and float(s) accepts it, and is s itself for every other s.
C9_Normalize ==
    hres # Unset =>
        /\ ~hres.raised
        /\ IF HourMinute(hval.s)
           THEN IsRounded(hres.v, HourOf(hval.s), MinuteOf(hval.s))
           ELSE IF FloatParses(hval.s) THEN IsNumberOf(hres.v, hval.s)
           ELSE hres.v = hval

\* "8:15" gave 8.25.
C9_Witness ==
    /\ hval.s = <<"8", ":", "1", "5">>
    /\ hres.v = Val("float", 825, 100, <<>>)

\* The table a session holds after loading base and submitting inputs.
RECURSIVE Submitted(_, _)
Submitted(base, inputs) ==
    IF inputs = <<>> THEN base
    ELSE Concat(Submitted(base, SubSeq(inputs, 1, Len(inputs) - 1)),
                DataFrame(COLUMNS, <<Entry(inputs[Len(inputs)])>>))

\* C10: a session's table is always the table it loaded at its start
\* followed by every row it has submitted, and an upload that returns True
\* leaves in the remote file the CSV of that whole table, whatever the
\* remote file held before.
C10_WholeTableWritten ==
    /\ [](\A s \in Sessions :
            pc[s] # "start" => df[s] = Submitted(loaded[s].df, subs[s]))
    /\ [][\A s \in Sessions :
            (run[s].ret # "True" /\ run'[s].ret = "True") =>
                /\ remote'.file = to_csv(Submitted(loaded[s].df, subs[s]))
                /\ remote'.head # remote.head]_vars

\* Both sessions loaded the same file; one uploaded a row, then the other
\* uploaded its own table, which does not hold the first one's row.
C10_Witness ==
    \E s \in Sessions :
        LET t == Other(s)
        IN /\ pc[s] = "idle" /\ pc[t] = "idle"
           /\ loaded[s].file = loaded[t].file /\ loaded[s].exc = "none"
           /\ run[s].ret = "True" /\ run[t].ret = "True"
           /\ remote.file = to_csv(df[s])
           /\ Len(remote.file.rows) = Len(loaded[s].df.rows) + 1
           /\ df[t].rows[Len(df[t].rows)] # df[s].rows[Len(df[s].rows)]
====
